---------------------------- MODULE Spec2Model ----------------------------
(***************************************************************************)
(* Model of jacobian_simulation.py: the interactive input collection, the  *)
(* two (or one) FuncAnimation sessions driven by the GUI timer, the shared *)
(* pause flag toggled by key presses, and the kinematics computed by each  *)
(* running tick (update -> compute_wheel_velocities_jacobian -> plot_robot)*)
(*                                                                         *)
(* Real numbers are carried in fixed point with three decimals: lengths    *)
(* in millimetres, speeds in mm/s, wheel velocities in mrad/s, angles that *)
(* the code keeps in radians in milliradians.  Angles the code keeps in    *)
(* degrees (frame, direction, orientation) and omega are integers.         *)
(***************************************************************************)
EXTENDS Integers, Sequences, FiniteSets, TLC

VARIABLES
    G,          \* the module globals of lines 9-14 (robot configuration)
    PLOT_BOTH,  \* global PLOT_BOTH (line 15)
    OMEGA,      \* global OMEGA (line 12)
    paused,     \* global paused (line 16)
    pc,         \* position of the main program: "inputs", "configured",
                \* "show", "crashed" ("construct": stand-alone Jacobian build)
    use_four_wheels, \* local of run_animation (line 283)
    anims,      \* the FuncAnimation objects created by run_animation
    axes,       \* what each matplotlib axis currently shows
    jac,        \* result of a stand-alone construct_jacobian call
    answers,    \* history: the answers get_user_inputs read, until the show starts
    rendered,   \* history, per animation: frame of the last running tick
    gap,        \* history, per animation: ticks since that running tick
    lastEvent   \* history: the event handled last

vars == <<G, PLOT_BOTH, OMEGA, paused, pc, use_four_wheels, anims, axes, jac,
          answers, rendered, gap, lastEvent>>

-----------------------------------------------------------------------------
(* Bounds of the model *)

\* omega values the user types are -MaxOmega, 0 and MaxOmega
MaxOmega == 1
\* timer events handled (by all animations together) during one pause
MaxPausedTicks == 2
\* timer events the animation created first may be ahead of the other one
MaxSkew == 1

-----------------------------------------------------------------------------
(* Program constants *)

\* frames=np.arange(0, 720, 1): the length of one pass of the frame sequence
NumFrames == 720

\* WHEEL_RADIUS, ROBOT_RADIUS in mm; wheel angles np.radians(deg) in mrad
Radians(deg) == (deg * 17453) \div 1000

ProgramGlobals ==
    [WHEEL_RADIUS   |-> 148,
     ROBOT_RADIUS   |-> 195,
     WHEEL_ANGLES   |-> <<Radians(60), Radians(180), Radians(300)>>,
     F_WHEEL_ANGLES |-> <<Radians(45), Radians(135), Radians(225), Radians(315)>>]

-----------------------------------------------------------------------------
(* Arithmetic *)

\* Python's and numpy's %: the result has the sign of the divisor
PyMod_truncating(a, b) ==
    IF a >= 0 THEN a - b * (a \div b) ELSE -((-a) - b * ((-a) \div b))

PyMod(a, b) == a - b * (a \div b)

Abs(x) == IF x < 0 THEN -x ELSE x

\* sine of z mrad, 0 <= z <= pi/2, in thousandths (odd Taylor polynomial)
SinQuarter(z) ==
    LET z2 == (z * z + 500) \div 1000
        t3 == (z * z2 + 3000) \div 6000
        t5 == (t3 * z2 + 10000) \div 20000
        t7 == (t5 * z2 + 21000) \div 42000
    IN  z - t3 + t5 - t7

\* np.sin of x mrad, in thousandths
Sin(x) ==
    LET y == PyMod(x, 6283)
        h == IF y > 3142 THEN y - 3142 ELSE y
        q == IF h > 1571 THEN 3142 - h ELSE h
        s == SinQuarter(q)
    IN  IF y > 3142 THEN -s ELSE s

\* np.cos of x mrad, in thousandths
Cos(x) == Sin(x + 1571)

-----------------------------------------------------------------------------
(* Kinematics *)

\* construct_jacobian: one row [cos(a)/r, sin(a)/r, R/r] per mounting angle
\* of the selected set.  Lines 63-64 divide numpy floats (a zero radius
\* gives inf there); line 65 divides two Python floats and raises
\* ZeroDivisionError on a zero radius.  Nothing is validated.
construct_jacobian(use_four) ==
    LET angles == IF use_four THEN G.F_WHEEL_ANGLES ELSE G.WHEEL_ANGLES
        r      == G.WHEEL_RADIUS
    IN  IF Len(angles) > 0 /\ r = 0
        THEN [error |-> "ZeroDivisionError", rows |-> <<>>]
        ELSE [error |-> "none",
              rows  |-> [i \in 1..Len(angles) |->
                          << (Cos(angles[i]) * 1000) \div r,
                             (Sin(angles[i]) * 1000) \div r,
                             (G.ROBOT_RADIUS * 1000) \div r >>]]

\* convert_to_body_frame: <<v_bx, v_by>> of a speed and two angles in degrees
convert_to_body_frame(speed, angle, orientation) ==
    LET angle_rad       == Radians(angle)
        orientation_rad == Radians(orientation)
        v_bx_0 == (speed * Cos(angle_rad - orientation_rad)) \div 1000
        v_by_0 == (speed * Sin(angle_rad - orientation_rad)) \div 1000
    IN  << -v_by_0, v_bx_0 >>

\* the same computation with the configuration argument dropped
\* (construct_jacobian() called with its default, the 3-wheel set)
compute_wheel_velocities_default(speed, angle, orientation, omega, use_four) ==
    LET b == convert_to_body_frame(speed, angle, orientation)
        v == << b[1], b[2], omega * 1000 >>
        j == construct_jacobian(FALSE).rows
    IN  [i \in 1..Len(j) |->
            (j[i][1] * v[1] + j[i][2] * v[2] + j[i][3] * v[3]) \div 1000]

\* compute_wheel_velocities_jacobian: np.dot(j, [v_bx, v_by, omega])
compute_wheel_velocities_jacobian(speed, angle, orientation, omega, use_four) ==
    LET b == convert_to_body_frame(speed, angle, orientation)
        v == << b[1], b[2], omega * 1000 >>
        j == construct_jacobian(use_four).rows
    IN  [i \in 1..Len(j) |->
            (j[i][1] * v[1] + j[i][2] * v[2] + j[i][3] * v[3]) \div 1000]

-----------------------------------------------------------------------------
(* Rendering *)

\* an axis after ax.clear(): nothing drawn, grid off
Blank ==
    [drawn |-> FALSE, error |-> "none", grid |-> FALSE, forward |-> 0,
     arrow |-> FALSE, wheels |-> <<>>, velocities |-> <<>>,
     orientation |-> 0, angle |-> 0, speed |-> 0, title |-> 0]

\* the axis pyplot draws on when no axis is named: the one created last
\* by plt.subplots (ax2 when both are plotted, else ax)
gca == IF PLOT_BOTH THEN 2 ELSE 1

\* what plot_robot puts on one axis (lines 128-213 and plot_text)
Drawing(wheel_velocities, orientation, speed, angle, use_four) ==
    LET wheel_angles == IF use_four THEN G.F_WHEEL_ANGLES ELSE G.WHEEL_ANGLES
        n            == Len(wheel_angles)
        wheel(i) ==
            LET v == wheel_velocities[i]
            IN  [label |-> i - 1,
                 at    |-> wheel_angles[i] + Radians(orientation),
                 arrow |-> IF Abs(v) >= 100
                           THEN (IF v < 0 THEN 1 ELSE -1) ELSE 0]
    IN  IF Len(wheel_velocities) < n
        THEN \* wheel_velocities[i] at line 167 raises IndexError: the
             \* wheels before it are drawn, the text and title are not
             [Blank EXCEPT !.drawn = TRUE, !.error = "IndexError",
                           !.forward = orientation, !.arrow = speed > 10,
                           !.wheels = [i \in 1..Len(wheel_velocities) |-> wheel(i)]]
        ELSE [drawn |-> TRUE, error |-> "none", grid |-> FALSE,
              forward |-> orientation, arrow |-> speed > 10,
              wheels |-> [i \in 1..n |-> wheel(i)],
              velocities |-> wheel_velocities,
              orientation |-> orientation, angle |-> angle, speed |-> speed,
              title |-> IF use_four THEN 4 ELSE 3]

\* plot_robot drawing on the current axis of pyplot instead of on ax
plot_robot_on_gca(ax, wheel_velocities, orientation, speed, angle, use_four) ==
    [axes EXCEPT ![gca] =
        Drawing(wheel_velocities, orientation, speed, angle, use_four)]

\* plot_robot: clears and redraws ax; plt.grid(False) at line 210 acts on
\* the current axis of pyplot, which need not be ax
plot_robot(ax, wheel_velocities, orientation, speed, angle, use_four) ==
    LET drawn == [axes EXCEPT ![ax] =
                    Drawing(wheel_velocities, orientation, speed, angle, use_four)]
    IN  [drawn EXCEPT ![gca].grid = FALSE]

-----------------------------------------------------------------------------
(* The tick and the pause toggle *)

\* update with the paused test left out
update_ignoring_pause(frame, ax, omega, use_four) ==
    LET speed       == (500 * (1000 + Sin(Radians(frame)))) \div 1000
        angle       == PyMod(frame, 360)
        orientation == PyMod(omega * frame, 360)
        wheel_velocities ==
            compute_wheel_velocities_jacobian(speed, angle, orientation, omega, use_four)
    IN  plot_robot(ax, wheel_velocities, orientation, speed, angle, use_four)

\* update turning the robot by omega per rendered frame, from what ax shows
update_accumulating(frame, ax, omega, use_four) ==
    IF ~paused
    THEN LET speed       == (500 * (1000 + Sin(Radians(frame)))) \div 1000
             angle       == PyMod(frame, 360)
             orientation == PyMod(axes[ax].orientation + omega, 360)
             wheel_velocities ==
                 compute_wheel_velocities_jacobian(speed, angle, orientation, omega, use_four)
         IN  plot_robot(ax, wheel_velocities, orientation, speed, angle, use_four)
    ELSE axes

\* update (lines 253-275): the axes after the call.  ax.clear() at line 259
\* is followed by the one in plot_robot, which redraws the axis whole.
update(frame, ax, omega, use_four) ==
    IF ~paused
    THEN LET speed       == (500 * (1000 + Sin(Radians(frame)))) \div 1000
             angle       == PyMod(frame, 360)
             orientation == PyMod(omega * frame, 360)
             wheel_velocities ==
                 compute_wheel_velocities_jacobian(speed, angle, orientation, omega, use_four)
         IN  plot_robot(ax, wheel_velocities, orientation, speed, angle, use_four)
    ELSE axes

\* toggle_pause without the test of the key
toggle_pause_any_key(key) == ~paused

\* toggle_pause (lines 247-250): the flag after a key press
toggle_pause(key) == IF key = " " THEN ~paused ELSE paused

-----------------------------------------------------------------------------
(* Input collection *)

OmegaInputs == {-MaxOmega, 0, MaxOmega}

\* input() at end of input raises EOFError; EOF stands for that
EOF == "<EOF>"

\* the lines a user types
Lines == {"y", "Y", "n", "", "abc"} \cup {ToString(v) : v \in OmegaInputs}

\* str.lower on the lines above
Lower(s) == IF s = "Y" THEN "y" ELSE s

\* float(s): the value of a numeral, ValueError otherwise
Float(s) ==
    IF \E v \in OmegaInputs : ToString(v) = s
    THEN [ok |-> TRUE,  value |-> CHOOSE v \in OmegaInputs : ToString(v) = s]
    ELSE [ok |-> FALSE, value |-> 0]

\* get_user_inputs (lines 19-46) on the answers a1, a2, a3 (a3 is read only
\* when a single configuration is plotted).  Only ValueError is caught.
get_user_inputs(a1, a2, a3) ==
    IF a1 = EOF
    THEN [raised |-> "EOFError", PLOT_BOTH |-> PLOT_BOTH, OMEGA |-> OMEGA,
          use_four_wheels |-> FALSE]
    ELSE LET both == (Lower(a1) = "y")  IN
    IF a2 = EOF
    THEN [raised |-> "EOFError", PLOT_BOTH |-> both, OMEGA |-> OMEGA,
          use_four_wheels |-> FALSE]
    ELSE LET parsed == IF a2 = "" THEN [ok |-> TRUE, value |-> OMEGA] ELSE Float(a2)
             input_omega == IF parsed.ok THEN parsed.value ELSE OMEGA
             plot_both   == IF parsed.ok THEN both ELSE FALSE
         IN
    IF plot_both
    THEN [raised |-> "none", PLOT_BOTH |-> TRUE, OMEGA |-> input_omega,
          use_four_wheels |-> FALSE]
    ELSE IF a3 = EOF
    THEN [raised |-> "EOFError", PLOT_BOTH |-> FALSE, OMEGA |-> input_omega,
          use_four_wheels |-> FALSE]
    ELSE [raised |-> "none", PLOT_BOTH |-> FALSE, OMEGA |-> input_omega,
          use_four_wheels |-> (Lower(a3) = "y")]

\* history: the answers get_user_inputs reads of a1, a2, a3, in order
AnswersRead(a1, a2, a3) ==
    IF a1 = EOF THEN <<a1>>
    ELSE IF a2 = EOF THEN <<a1, a2>>
    ELSE IF Lower(a1) = "y" /\ (a2 = "" \/ Float(a2).ok) THEN <<a1, a2>>
    ELSE <<a1, a2, a3>>

-----------------------------------------------------------------------------
(* The animation host: FuncAnimation(fig, update, fargs=..., frames=         *)
(* np.arange(0, 720, 1), interval=50, repeat=True), no init_func.  On the   *)
(* first draw of the figure each animation draws the first frame of a fresh *)
(* sequence and starts its timer; every timer event passes the next frame   *)
(* of the sequence to update; the event that finds the sequence exhausted   *)
(* draws the first frame again and restarts the sequence.                   *)

\* frames=np.arange(0, 720, 2): every other frame
frames_by_two(i) == 2 * i

\* the i-th element of np.arange(0, 720, 1)
frames(i) == i

\* a host that holds the sequence while the flag is set
next_seq_held(seq) ==
    IF paused THEN seq ELSE IF seq < NumFrames THEN seq + 1 ELSE 0

\* position in the frame sequence after a timer event at position seq
\* (NumFrames: exhausted; the event then restarts the sequence)
next_seq(seq) == IF seq < NumFrames THEN seq + 1 ELSE 0

\* the frame index passed to update last by an animation (-1: none yet)
LastFrame(a) ==
    IF ~a.started THEN -1 ELSE IF a.seq = 0 THEN frames(0) ELSE frames(a.seq - 1)

\* timer events animation s is ahead of animation o
Lead(s, o) ==
    PyMod(anims[s].seq - anims[o].seq + MaxSkew, NumFrames + 1) - MaxSkew

\* the timers have the same interval and are started in the order the
\* animations were created: a later animation has never handled more timer
\* events than an earlier one, and an earlier one at most MaxSkew more
MayStep(s) ==
    \A o \in DOMAIN anims \ {s} :
        IF s < o THEN Lead(s, o) < MaxSkew ELSE Lead(s, o) < 0

\* history: timer events handled since the flag was last set
RECURSIVE SumTicks(_)
SumTicks(n) == IF n = 0 THEN 0 ELSE gap[n].ticks + SumTicks(n - 1)

PausedTicks == SumTicks(Len(gap))

NoJacobian == [error |-> "unset", rows |-> <<>>, use_four |-> FALSE]

Init ==
    /\ G = ProgramGlobals
    /\ PLOT_BOTH = FALSE
    /\ OMEGA = 0
    /\ paused = FALSE
    /\ pc = "inputs"
    /\ use_four_wheels = FALSE
    /\ anims = <<>>
    /\ axes = <<>>
    /\ jac = NoJacobian
    /\ answers = <<>>
    /\ rendered = <<>>
    /\ gap = <<>>
    /\ lastEvent = [kind |-> "none"]

\* run_animation, line 283: the three prompts
GetUserInputs ==
    /\ pc = "inputs"
    /\ \E a1 \in Lines \cup {EOF}, a2 \in Lines \cup {EOF}, a3 \in Lines \cup {EOF} :
         LET r == get_user_inputs(a1, a2, a3) IN
         /\ PLOT_BOTH' = r.PLOT_BOTH
         /\ OMEGA' = r.OMEGA
         /\ use_four_wheels' = r.use_four_wheels
         /\ pc' = IF r.raised = "none" THEN "configured" ELSE "crashed"
         /\ answers' = AnswersRead(a1, a2, a3)
    /\ UNCHANGED <<G, paused, anims, axes, jac, rendered, gap, lastEvent>>

\* run_animation, lines 285-305: the figure, its axes and animations, the
\* key handler, plt.show()
CreateAnimations ==
    /\ pc = "configured"
    /\ anims' = IF PLOT_BOTH
                THEN << [ax |-> 1, omega |-> OMEGA, use_four |-> FALSE,
                         started |-> FALSE, seq |-> 0],
                        [ax |-> 2, omega |-> OMEGA, use_four |-> TRUE,
                         started |-> FALSE, seq |-> 0] >>
                ELSE << [ax |-> 1, omega |-> OMEGA, use_four |-> use_four_wheels,
                         started |-> FALSE, seq |-> 0] >>
    /\ axes' = [a \in DOMAIN anims' |-> Blank]
    /\ rendered' = [s \in DOMAIN anims' |-> -1]
    /\ gap' = [s \in DOMAIN anims' |-> [ticks |-> 0, firsts |-> 0]]
    /\ answers' = <<>>
    /\ pc' = "show"
    /\ UNCHANGED <<G, PLOT_BOTH, OMEGA, paused, use_four_wheels, jac, lastEvent>>

\* one call of update by animation s with frame index f, and its record
Tick(s, f, first) ==
    /\ axes' = update(f, anims[s].ax, anims[s].omega, anims[s].use_four)
    /\ rendered' = IF paused THEN rendered ELSE [rendered EXCEPT ![s] = f]
    /\ gap' = IF paused
              THEN [gap EXCEPT ![s] = [ticks  |-> @.ticks + 1,
                                       firsts |-> @.firsts + first]]
              ELSE [gap EXCEPT ![s] = [ticks |-> 0, firsts |-> 0]]
    /\ lastEvent' = [kind |-> "tick", anim |-> s, frame |-> f,
                     prevFrame |-> LastFrame(anims[s]), emitted |-> ~paused,
                     prevRendered |-> rendered[s], skipped |-> gap[s].ticks,
                     firsts |-> gap[s].firsts + first]

\* the first draw of the figure: animation s draws frame 0 and starts its
\* timer (the animations are started in the order they were created)
Start(s) ==
    /\ pc = "show"
    /\ ~anims[s].started
    /\ \A t \in 1..(s - 1) : anims[t].started
    /\ Tick(s, frames(0), 0)
    /\ anims' = [anims EXCEPT ![s].started = TRUE]
    /\ UNCHANGED <<G, PLOT_BOTH, OMEGA, paused, pc, use_four_wheels, jac, answers>>

\* a timer event of animation s
Step(s) ==
    /\ pc = "show"
    /\ \A t \in DOMAIN anims : anims[t].started
    /\ MayStep(s)
    /\ paused => PausedTicks < MaxPausedTicks
    /\ IF anims[s].seq < NumFrames
       THEN Tick(s, frames(anims[s].seq), IF anims[s].seq = 0 THEN 1 ELSE 0)
       ELSE Tick(s, frames(0), 0)
    /\ anims' = [anims EXCEPT ![s].seq = next_seq(@)]
    /\ UNCHANGED <<G, PLOT_BOTH, OMEGA, paused, pc, use_four_wheels, jac, answers>>

Keys == {" ", "q"}

\* a key_press_event of the figure, handled by toggle_pause (the window
\* takes key presses once it is drawn, and the first draw starts every
\* animation before another event is handled)
KeyPress(key) ==
    /\ pc = "show"
    /\ \A t \in DOMAIN anims : anims[t].started
    /\ paused' = toggle_pause(key)
    /\ lastEvent' =
         IF key = " " /\ lastEvent.kind = "key" /\ lastEvent.key = " "
                      /\ lastEvent.run = 1
         THEN [lastEvent EXCEPT !.run = 2]
         ELSE [kind |-> "key", key |-> key, run |-> IF key = " " THEN 1 ELSE 0,
               before |-> paused]
    /\ UNCHANGED <<G, PLOT_BOTH, OMEGA, pc, use_four_wheels, anims, axes, jac,
                   answers, rendered, gap>>

Next ==
    \/ GetUserInputs
    \/ CreateAnimations
    \/ \E s \in DOMAIN anims : Start(s)
    \/ \E s \in DOMAIN anims : Step(s)
    \/ \E key \in Keys : KeyPress(key)

Spec == Init /\ [][Next]_vars

-----------------------------------------------------------------------------
(* construct_jacobian on its own, over the robot configurations the module  *)
(* globals of lines 9-14 can be set to                                      *)

Configurations ==
    [WHEEL_RADIUS   : {-148, 0, 148},
     ROBOT_RADIUS   : {-195, 0, 195},
     WHEEL_ANGLES   : {<<>>, ProgramGlobals.WHEEL_ANGLES},
     F_WHEEL_ANGLES : {<<>>, ProgramGlobals.F_WHEEL_ANGLES}]

InitJ ==
    /\ G \in Configurations
    /\ PLOT_BOTH = FALSE
    /\ OMEGA = 0
    /\ paused = FALSE
    /\ pc = "construct"
    /\ use_four_wheels = FALSE
    /\ anims = <<>>
    /\ axes = <<>>
    /\ jac = NoJacobian
    /\ answers = <<>>
    /\ rendered = <<>>
    /\ gap = <<>>
    /\ lastEvent = [kind |-> "none"]

ConstructJacobian ==
    /\ pc = "construct"
    /\ \E four \in BOOLEAN :
         LET j == construct_jacobian(four)
         IN  jac' = [error |-> j.error, rows |-> j.rows, use_four |-> four]
    /\ pc' = "constructed"
    /\ UNCHANGED <<G, PLOT_BOTH, OMEGA, paused, use_four_wheels, anims, axes,
                   answers, rendered, gap, lastEvent>>

NextJ == ConstructJacobian

SpecJ == InitJ /\ [][NextJ]_vars

-----------------------------------------------------------------------------
(* Properties *)

\* the animation whose timer event was handled last
Ticked == lastEvent.anim

\* the motion command of the last running tick of animation s, as shown
Command(s) ==
    [speed       |-> axes[anims[s].ax].speed,
     direction   |-> axes[anims[s].ax].angle,
     orientation |-> axes[anims[s].ax].orientation,
     omega       |-> anims[s].omega]

\* C1: a call of update made while the flag is Paused changes nothing: no
\* axis is cleared or redrawn, no result is recorded, however many such
\* calls there are; every axis keeps showing its last Running tick.
C1_PausedTickIsNoOp ==
    [][(pc = "show" /\ paused /\ lastEvent'.kind = "tick")
         => axes' = axes /\ rendered' = rendered]_vars

\* C1 witness: a second call in a row made while Paused, on a drawn axis
C1_Witness ==
    /\ pc = "show" /\ paused
    /\ lastEvent.kind = "tick" /\ ~lastEvent.emitted /\ lastEvent.skipped >= 1
    /\ axes[anims[Ticked].ax].drawn
    /\ lastEvent.frame > rendered[Ticked]

\* C2: the flag is Running until the show starts; a press of the space key
\* flips it; a press of another key, a tick, and the input collection leave
\* it alone; two presses of the space key in a row restore it.
C2_ToggleOnly ==
    /\ pc # "show" => ~paused
    /\ lastEvent.kind = "none" => ~paused
    /\ lastEvent.kind = "tick" => paused = ~lastEvent.emitted
    /\ lastEvent.kind = "key" =>
         paused = IF lastEvent.key = " " /\ lastEvent.run = 1
                  THEN ~lastEvent.before ELSE lastEvent.before

\* C2 witness: two presses of the space key in a row, made while Paused
C2_Witness ==
    /\ lastEvent.kind = "key" /\ lastEvent.key = " " /\ lastEvent.run = 2
    /\ lastEvent.before /\ paused

\* C3 as stated: the frame index passed to update is 0 at first and the
\* successor of the one passed before at every later call, without end.
C3_Original ==
    lastEvent.kind = "tick" =>
        lastEvent.frame = lastEvent.prevFrame + 1

\* C3 amended: the frame index passed to update is 0 at first and then
\* goes up by one per call from 0 to 719; after 719 it is 0 again, and the
\* 0 that begins a pass (the initial draw) is followed by the 0 of the
\* first timer step.
C3_Amended ==
    lastEvent.kind = "tick" =>
        LET f == lastEvent.frame
            p == lastEvent.prevFrame
        IN  /\ f \in 0..(NumFrames - 1)
            /\ p = -1 => f = 0
            /\ (p >= 1 /\ p < NumFrames - 1) => f = p + 1
            /\ p = NumFrames - 1 => f = 0
            /\ p = 0 => f \in {0, 1}

\* C3 witness: the call after the one with frame index 719
C3_Witness ==
    /\ lastEvent.kind = "tick"
    /\ lastEvent.prevFrame = NumFrames - 1 /\ lastEvent.frame = 0

\* an answer that was read is invalid or missing: omega is not a numeral,
\* an answer is empty, or there is no answer at all
InvalidOrMissing ==
    \/ \E i \in 1..Len(answers) : answers[i] = "" \/ answers[i] = EOF
    \/ Len(answers) >= 2 /\ answers[2] # "" /\ ~Float(answers[2]).ok

\* C4 as stated: when an answer is invalid or missing, get_user_inputs
\* still returns, and with omega = 0 and the 3-wheel configuration, shown
\* alone.
C4_Original ==
    (answers # <<>> /\ InvalidOrMissing) =>
        /\ pc # "crashed"
        /\ pc = "configured" =>
             OMEGA = 0 /\ ~use_four_wheels /\ ~PLOT_BOTH

\* C5: when both configurations are plotted, a timer event of one animation
\* leaves the other animation's position in its frame sequence, its
\* arguments (among them the configuration its Jacobian is built from) and
\* what its axis shows unchanged; the flag is the one thing both read: an
\* event handled while it is set changes no axis, and an event handled
\* while it is clear makes the axis of its animation show the frame passed.
C5_SessionsIndependent ==
    [][(pc = "show" /\ lastEvent'.kind = "tick") =>
         /\ \A o \in DOMAIN anims \ {lastEvent'.anim} :
               /\ anims'[o] = anims[o]
               /\ axes'[anims[o].ax] = axes[anims[o].ax]
               /\ rendered'[o] = rendered[o]
         /\ paused => axes' = axes
         /\ ~paused =>
               /\ axes'[anims[lastEvent'.anim].ax].drawn
               /\ axes'[anims[lastEvent'.anim].ax].angle = lastEvent'.frame % 360
               /\ axes'[anims[lastEvent'.anim].ax].title =
                    (IF anims[lastEvent'.anim].use_four THEN 4 ELSE 3)]_vars

\* C5 witness: both plotted, the two axes show different frames, Paused
C5_Witness ==
    /\ PLOT_BOTH /\ pc = "show" /\ paused
    /\ rendered[1] > rendered[2] /\ rendered[2] >= 1
    /\ lastEvent.kind = "tick" /\ Ticked = 2
    /\ axes[1].title = 3 /\ axes[2].title = 4

\* C6 as stated: two animations that were passed the same sequence of frame
\* indices, with the same omega, have emitted the same motion commands (the
\* last ones are compared).
C6_Original ==
    (/\ pc = "show" /\ PLOT_BOTH
     /\ anims[1].started /\ anims[2].started
     /\ anims[1].seq = anims[2].seq)
    => /\ rendered[1] = rendered[2]
       /\ Command(1) = Command(2)

\* C6 amended: a Running tick emits a motion command that depends on its
\* frame index and omega alone: two animations whose last Running ticks had
\* the same frame index show the same command, whatever each was passed or
\* skipped before.  Whether a tick emits depends on the flag as well: a tick
\* emits exactly when the flag is clear.
C6_Amended ==
    pc = "show" =>
        /\ \A s \in DOMAIN anims, t \in DOMAIN anims :
              (rendered[s] = rendered[t] /\ rendered[s] # -1)
                  => Command(s) = Command(t)
        /\ lastEvent.kind = "tick" =>
              /\ lastEvent.emitted = ~paused
              /\ lastEvent.emitted =>
                    /\ rendered[Ticked] = lastEvent.frame
                    /\ Command(Ticked).direction = lastEvent.frame % 360
              /\ ~lastEvent.emitted => rendered[Ticked] = lastEvent.prevRendered

\* C6 witness: both animations show frame 3, one skipped a frame the other
\* rendered, omega is not 0
C6_Witness ==
    /\ PLOT_BOTH /\ pc = "show"
    /\ rendered[1] = rendered[2] /\ rendered[1] >= 3
    /\ anims[1].omega # 0
    /\ lastEvent.kind = "tick" /\ Ticked = 2 /\ lastEvent.skipped = 1

\* the configuration construct_jacobian was called on is invalid: wheel
\* radius <= 0, platform radius < 0, or no mounting angle
InvalidConfiguration ==
    \/ G.WHEEL_RADIUS <= 0
    \/ G.ROBOT_RADIUS < 0
    \/ Len(IF jac.use_four THEN G.F_WHEEL_ANGLES ELSE G.WHEEL_ANGLES) = 0

\* C7 as stated: construct_jacobian on an invalid configuration produces no
\* matrix and reaches no division by zero: it raises ConfigurationError.
C7_Original ==
    (pc = "constructed" /\ InvalidConfiguration)
        => jac.error = "ConfigurationError"

\* C8: what an axis shows after a Running tick with frame index f >= 0 and
\* integer omega: direction f mod 360 and orientation (omega * f) mod 360,
\* both in 0..359.
C8_DirectionOrientation ==
    pc = "show" =>
        \A s \in DOMAIN anims :
            rendered[s] # -1 =>
                /\ rendered[s] >= 0
                /\ Command(s).direction = rendered[s] % 360
                /\ Command(s).orientation = (anims[s].omega * rendered[s]) % 360
                /\ Command(s).direction \in 0..359
                /\ Command(s).orientation \in 0..359
                /\ Command(s).omega = OMEGA

\* C8 witness: a negative omega, a frame index past 360
C8_Witness ==
    /\ pc = "show"
    /\ \E s \in DOMAIN anims :
          /\ anims[s].omega < 0 /\ rendered[s] > 360
          /\ Command(s).direction = rendered[s] - 360
          /\ Command(s).orientation > 0

\* C9: what an axis shows after a Running tick: one wheel velocity per
\* wheel drawn, 3 for the 3-wheel set and 4 for the 4-wheel set, the wheels
\* labelled 0, 1, ... in the order of the mounting angles, and no index out
\* of range.
C9_OneVelocityPerWheel ==
    pc = "show" =>
        \A s \in DOMAIN anims :
            LET shown == axes[anims[s].ax]
                n     == IF anims[s].use_four THEN 4 ELSE 3
            IN  shown.drawn =>
                  /\ shown.error = "none"
                  /\ Len(shown.velocities) = n
                  /\ Len(shown.wheels) = n
                  /\ shown.title = n
                  /\ \A i \in 1..n :
                        /\ shown.wheels[i].label = i - 1
                        /\ shown.wheels[i].at =
                             (IF anims[s].use_four THEN G.F_WHEEL_ANGLES
                              ELSE G.WHEEL_ANGLES)[i] + Radians(shown.orientation)
                        /\ shown.wheels[i].arrow # 0
                              <=> (shown.velocities[i] >= 100
                                   \/ shown.velocities[i] <= -100)

\* C9 witness: both configurations drawn
C9_Witness ==
    /\ pc = "show" /\ PLOT_BOTH
    /\ axes[1].drawn /\ Len(axes[1].velocities) = 3
    /\ axes[2].drawn /\ Len(axes[2].velocities) = 4

\* C10 as stated: the first frame rendered after k >= 1 ticks were made
\* while Paused is (last rendered frame + 1 + k) mod 720.
C10_Original ==
    (/\ lastEvent.kind = "tick" /\ lastEvent.emitted
     /\ lastEvent.prevRendered # -1 /\ lastEvent.skipped >= 1)
    => lastEvent.frame =
         (lastEvent.prevRendered + 1 + lastEvent.skipped) % NumFrames

\* C10 amended: the host passes the next frame index at every tick, Running
\* or Paused, and a tick made while Paused renders nothing; the first frame
\* rendered after k >= 1 such ticks is (last rendered frame + 1 + k - d)
\* mod 720, where d is how many of the k + 1 ticks since the last rendered
\* one were the first timer step of a pass, which repeats the frame 0 of
\* the initial draw (d = 0 unless the sequence restarted in between).
C10_Amended ==
    lastEvent.kind = "tick" =>
        /\ LastFrame(anims[Ticked]) = lastEvent.frame
        /\ ~lastEvent.emitted =>
              /\ rendered[Ticked] = lastEvent.prevRendered
              /\ gap[Ticked].ticks = lastEvent.skipped + 1
        /\ (/\ lastEvent.emitted /\ lastEvent.prevRendered # -1
            /\ lastEvent.skipped >= 1)
           => /\ rendered[Ticked] = lastEvent.frame
              /\ lastEvent.frame =
                   (lastEvent.prevRendered + 1 + lastEvent.skipped
                      - lastEvent.firsts) % NumFrames
              /\ lastEvent.firsts \in 0..1

\* C10 witness: two ticks made while Paused, then frame 13 rendered after
\* frame 10
C10_Witness ==
    /\ lastEvent.kind = "tick" /\ lastEvent.emitted
    /\ lastEvent.skipped = 2 /\ lastEvent.firsts = 0
    /\ lastEvent.prevRendered = 10 /\ lastEvent.frame = 13
    /\ rendered[Ticked] = 13

=============================================================================
